---- MODULE Spec2Model ----
(***************************************************************************)
(* A model of the two notebooks of the repository:                         *)
(*   - "How to add message history": the session stores (a global dict of  *)
(*     ChatMessageHistory objects, a Redis server), the history factories  *)
(*     get_session_history / get_message_history and the history-aware     *)
(*     invocation built around them;                                       *)
(*   - "Vectara self-querying": the movie dataset, the upload loop and the *)
(*     self-querying retriever.                                            *)
(***************************************************************************)
EXTENDS Integers, Sequences, FiniteSets, TLC

VARIABLES
    store,      \* the global dict `store`: key -> reference of a history object
    heap,       \* the history objects ever built, by reference (1..Len(heap))
    redis,      \* the Redis server: key -> list of messages
    binding,    \* which cell's get_session_history / with_message_history is bound
    epoch,      \* how many times `store` has been bound to a dict
    pc,         \* position of the invocation in flight
    cur,        \* the invocation in flight
    log,        \* the invocations that have returned, in order
    corpus,     \* the records of the Vectara corpus, in upload order
    uploaded,   \* how many elements of docs the upload loop has passed
    cell,       \* which cell built the retriever bound to `retriever`
    retriever,  \* the SelfQueryRetriever bound to `retriever`
    last        \* the last retriever.invoke: its text, structured query, result

hvars == <<store, heap, redis, binding, epoch, pc, cur, log>>

rvars == <<corpus, uploaded, cell, retriever, last>>

vars == <<store, heap, redis, binding, epoch, pc, cur, log,
          corpus, uploaded, cell, retriever, last>>

\* ------------------------------------------------------------------ bounds

MaxTurns == 3

\* ---------------------------------------------------------------- messages

HumanMessage(c) == [type |-> "human", content |-> c]

AIMessage(c) == [type |-> "ai", content |-> c]

\* The identifiers and texts the cells pass in.
SessionIds == {"abc123", "def234"}

UserIds == {"123", "abc123"}

ConversationIds == {"1", "2"}

Inputs == {"What does cosine mean?", "What?"}

\* The chat model is a remote service: its answer is any of these.
Outputs == {"Cosine is a trigonometric function", "I'm an AI assistant"}

\* -------------------------------------------------------------- dict keys
\* A Python str and a Python tuple are never equal as dict keys.

StrKey(s) == <<"str", s>>

TupleKey(u, c) == <<"tuple", u, c>>

\* ------------------------------------------------------------ the objects

ChatMessageHistory == [cls |-> "ChatMessageHistory", messages |-> <<>>, key |-> <<>>]

RedisKey(session_id) == <<"message_store:", session_id>>

RedisChatMessageHistory(session_id) ==
    [cls |-> "RedisChatMessageHistory", messages |-> <<>>, key |-> RedisKey(session_id)]

\* history.messages
Messages(hp, rd, ref) ==
    IF hp[ref].cls = "ChatMessageHistory"
    THEN hp[ref].messages
    ELSE IF hp[ref].key \in DOMAIN rd THEN rd[hp[ref].key] ELSE <<>>

\* history.add_messages(msgs): the new heap
AddMessagesHeap(hp, ref, msgs) ==
    IF hp[ref].cls = "ChatMessageHistory"
    THEN [hp EXCEPT ![ref].messages = @ \o msgs]
    ELSE hp

\* history.add_messages(msgs): the new Redis contents
AddMessagesRedis(hp, rd, ref, msgs) ==
    IF hp[ref].cls = "RedisChatMessageHistory"
    THEN LET k == hp[ref].key
         IN  [x \in DOMAIN rd \cup {k} |->
                 IF x = k THEN Messages(hp, rd, ref) \o msgs ELSE rd[x]]
    ELSE rd

\* dict assignment st[k] = ref
DictSet(st, k, ref) ==
    [x \in DOMAIN st \cup {k} |-> IF x = k THEN ref ELSE st[x]]

\* ------------------------------------------------------ history factories
\* Each returns the dict and the heap after the call, and the returned object.

get_session_history_always_new(st, hp, session_id) ==
    LET k == StrKey(session_id)
    IN  [store |-> DictSet(st, k, Len(hp) + 1),
         heap  |-> Append(hp, ChatMessageHistory),
         ret   |-> Len(hp) + 1]

get_session_history_one_key(st, hp, session_id) ==
    LET k == StrKey("session_id")
    IN  IF k \notin DOMAIN st
        THEN [store |-> DictSet(st, k, Len(hp) + 1),
              heap  |-> Append(hp, ChatMessageHistory),
              ret   |-> Len(hp) + 1]
        ELSE [store |-> st, heap |-> hp, ret |-> st[k]]

get_session_history_detached(st, hp, session_id) ==
    LET k == StrKey(session_id)
    IN  IF k \notin DOMAIN st
        THEN [store |-> st,
              heap  |-> Append(hp, ChatMessageHistory),
              ret   |-> Len(hp) + 1]
        ELSE [store |-> st, heap |-> hp, ret |-> st[k]]

get_session_history(st, hp, session_id) ==
    LET k == StrKey(session_id)
    IN  IF k \notin DOMAIN st
        THEN [store |-> DictSet(st, k, Len(hp) + 1),
              heap  |-> Append(hp, ChatMessageHistory),
              ret   |-> Len(hp) + 1]
        ELSE [store |-> st, heap |-> hp, ret |-> st[k]]

get_session_history_by_user(st, hp, user_id, conversation_id) ==
    LET k == TupleKey(user_id, "")
    IN  IF k \notin DOMAIN st
        THEN [store |-> DictSet(st, k, Len(hp) + 1),
              heap  |-> Append(hp, ChatMessageHistory),
              ret   |-> Len(hp) + 1]
        ELSE [store |-> st, heap |-> hp, ret |-> st[k]]

get_session_history_user_as_key(st, hp, user_id, conversation_id) ==
    LET k == StrKey(user_id)
    IN  IF k \notin DOMAIN st
        THEN [store |-> DictSet(st, k, Len(hp) + 1),
              heap  |-> Append(hp, ChatMessageHistory),
              ret   |-> Len(hp) + 1]
        ELSE [store |-> st, heap |-> hp, ret |-> st[k]]

get_session_history_user_conversation(st, hp, user_id, conversation_id) ==
    LET k == TupleKey(user_id, conversation_id)
    IN  IF k \notin DOMAIN st
        THEN [store |-> DictSet(st, k, Len(hp) + 1),
              heap  |-> Append(hp, ChatMessageHistory),
              ret   |-> Len(hp) + 1]
        ELSE [store |-> st, heap |-> hp, ret |-> st[k]]

get_session_history_redefined(st, hp, session_id) ==
    LET k == StrKey(session_id)
    IN  IF k \notin DOMAIN st
        THEN [store |-> DictSet(st, k, Len(hp) + 1),
              heap  |-> Append(hp, ChatMessageHistory),
              ret   |-> Len(hp) + 1]
        ELSE [store |-> st, heap |-> hp, ret |-> st[k]]

get_message_history_one_key(st, hp, session_id) ==
    [store |-> st,
     heap  |-> Append(hp, RedisChatMessageHistory("session_id")),
     ret   |-> Len(hp) + 1]

get_message_history(st, hp, session_id) ==
    [store |-> st,
     heap  |-> Append(hp, RedisChatMessageHistory(session_id)),
     ret   |-> Len(hp) + 1]

\* ------------------------------------------- the history-aware invocation
\* RunnableWithMessageHistory: load the history, run the wrapped runnable
\* on the history plus the new input, then add the input and the output
\* to the history.

Bindings == <<"single", "pair", "dict", "redis">>

\* config["configurable"] of an invocation under each binding
Configs(b) ==
    IF b = "pair"
    THEN [user_id : UserIds, conversation_id : ConversationIds]
    ELSE [session_id : SessionIds]

\* the call of the bound history factory with the configured parameters
Factory(b, st, hp, cfg) ==
    CASE b = "single" -> get_session_history(st, hp, cfg.session_id)
      [] b = "pair"   -> get_session_history_user_conversation(
                             st, hp, cfg.user_id, cfg.conversation_id)
      [] b = "dict"   -> get_session_history_redefined(st, hp, cfg.session_id)
      [] b = "redis"  -> get_message_history(st, hp, cfg.session_id)

\* the input of an invocation: a dict for the prompt, or a list of messages
InputOf(b, text) ==
    IF b = "dict"
    THEN <<HumanMessage(text)>>
    ELSE [ability |-> "math", input |-> text]

\* input_messages_key="input": the value under the key, as a human message
GetInputMessages(b, input) ==
    IF b = "dict" THEN input ELSE <<HumanMessage(input.input)>>

\* prompt | model: system message, the "history" placeholder, the human input;
\* the chain of the dict example gets the history followed by the input
PromptOf_no_placeholder(b, seen, input) ==
    IF b = "dict"
    THEN seen \o input
    ELSE <<[type |-> "system", content |-> input.ability]>>
             \o <<HumanMessage(input.input)>>

PromptOf(b, seen, input) ==
    IF b = "dict"
    THEN seen \o input
    ELSE <<[type |-> "system", content |-> input.ability]>>
             \o seen \o <<HumanMessage(input.input)>>

\* what the wrapped runnable returns for the model's answer
ResultOf(b, answer) ==
    IF b = "dict"
    THEN [output_message |-> AIMessage(answer)]
    ELSE AIMessage(answer)

\* output_messages_key="output_message": the value under the key
GetOutputMessages(b, result) ==
    IF b = "dict" THEN <<result.output_message>> ELSE <<result>>

\* no exception
NoError == "none"

NoCall ==
    [cfg |-> <<>>, hist |-> 0, text |-> "", input |-> <<>>, seen |-> <<>>,
     prompt |-> <<>>, answer |-> "", result |-> <<>>, calls |-> 0,
     error |-> NoError]

\* with_message_history.invoke, first step: the factory is called with the
\* configured parameters and the messages of the returned history are read
EnterHistory(cfg, text) ==
    /\ pc = "idle"
    /\ Len(log) < MaxTurns
    /\ LET r == Factory(binding, store, heap, cfg)
           input == InputOf(binding, text)
       IN  /\ store' = r.store
           /\ heap' = r.heap
           /\ cur' = [cfg |-> cfg, hist |-> r.ret, text |-> text,
                      input |-> input,
                      seen |-> Messages(r.heap, redis, r.ret),
                      prompt |-> <<>>, answer |-> "", result |-> <<>>,
                      calls |-> 0, error |-> NoError]
    /\ pc' = "loaded"
    /\ UNCHANGED <<redis, binding, epoch, log, rvars>>

\* second step: the chat model is called with the history and the input
ModelCall(answer) ==
    /\ pc = "loaded"
    /\ cur' = [cur EXCEPT !.prompt = PromptOf(binding, cur.seen, cur.input),
                          !.answer = answer,
                          !.result = ResultOf(binding, answer),
                          !.calls = @ + 1]
    /\ pc' = "called"
    /\ UNCHANGED <<store, heap, redis, binding, epoch, log, rvars>>

\* third step: the input and the output are added to the history, and the
\* result is returned to the caller
ExitHistory ==
    /\ pc = "called"
    /\ LET msgs == GetInputMessages(binding, cur.input)
                       \o GetOutputMessages(binding, cur.result)
       IN  /\ heap' = AddMessagesHeap(heap, cur.hist, msgs)
           /\ redis' = AddMessagesRedis(heap, redis, cur.hist, msgs)
           /\ log' = Append(log, [binding |-> binding, epoch |-> epoch,
                                  cfg |-> cur.cfg, hist |-> cur.hist,
                                  text |-> cur.text, answer |-> cur.answer,
                                  seen |-> cur.seen, prompt |-> cur.prompt,
                                  result |-> cur.result,
                                  calls |-> cur.calls])
    /\ cur' = NoCall
    /\ pc' = "idle"
    /\ UNCHANGED <<store, binding, epoch, rvars>>

\* ------------------------------------------------------------- the cells
\* The cells run in the notebook's order; a cell that defines a factory and
\* a wrapper binds both names anew.

DefineUserConversation_keep_store ==
    /\ pc = "idle"
    /\ binding = "single"
    /\ store' = store
    /\ epoch' = epoch + 1
    /\ binding' = "pair"
    /\ UNCHANGED <<heap, redis, pc, cur, log, rvars>>

\* cell 7: store = {}, get_session_history(user_id, conversation_id)
DefineUserConversation ==
    /\ pc = "idle"
    /\ binding = "single"
    /\ store' = <<>>
    /\ epoch' = epoch + 1
    /\ binding' = "pair"
    /\ UNCHANGED <<heap, redis, pc, cur, log, rvars>>

\* cell 9: get_session_history(session_id) again, on the same store
DefineDictOutput ==
    /\ pc = "idle"
    /\ binding = "pair"
    /\ binding' = "dict"
    /\ UNCHANGED <<store, heap, redis, epoch, pc, cur, log, rvars>>

\* the Redis cell: get_message_history
DefineRedis ==
    /\ pc = "idle"
    /\ binding = "dict"
    /\ binding' = "redis"
    /\ UNCHANGED <<store, heap, redis, epoch, pc, cur, log, rvars>>

Invoke ==
    \E cfg \in Configs(binding), text \in Inputs : EnterHistory(cfg, text)

\* the model bound with a second attempt, as model.with_retry() would be
Answer_with_retry ==
    \E answer \in Outputs :
        /\ pc \in {"loaded", "called"}
        /\ cur.calls < 2
        /\ cur' = [cur EXCEPT !.prompt = PromptOf(binding, cur.seen, cur.input),
                              !.answer = answer,
                              !.result = ResultOf(binding, answer),
                              !.calls = @ + 1]
        /\ pc' = "called"
        /\ UNCHANGED <<store, heap, redis, binding, epoch, log, rvars>>

\* runnable = prompt | model: one call of the chat model
Answer ==
    \E answer \in Outputs : ModelCall(answer)

\* ---------------------------------------------------------- the dataset

docs ==
    <<[page_content |-> "A bunch of scientists bring back dinosaurs and mayhem breaks loose",
       metadata |-> [year |-> 1993, rating |-> 77, genre |-> "science fiction"]],
      [page_content |-> "Leo DiCaprio gets lost in a dream within a dream within a dream within a ...",
       metadata |-> [year |-> 2010, director |-> "Christopher Nolan", rating |-> 82]],
      [page_content |-> "A psychologist / detective gets lost in a series of dreams within dreams within dreams and Inception reused the idea",
       metadata |-> [year |-> 2006, director |-> "Satoshi Kon", rating |-> 86]],
      [page_content |-> "A bunch of normal-sized women are supremely wholesome and some men pine after them",
       metadata |-> [year |-> 2019, director |-> "Greta Gerwig", rating |-> 83]],
      [page_content |-> "Toys come alive and have a blast doing so",
       metadata |-> [year |-> 1995, genre |-> "animated"]],
      [page_content |-> "Three men walk into the Zone, three men walk out of the Zone",
       metadata |-> [year |-> 1979, rating |-> 99, director |-> "Andrei Tarkovsky",
                     genre |-> "science fiction"]]>>

\* A rating is a float with one decimal; the model keeps it in tenths.
Rating(units, tenths) == 10 * units + tenths

\* the filterable metadata attributes of the corpus, and their types
metadata_field_info ==
    [genre |-> "string or list[string]", year |-> "integer",
     director |-> "string", rating |-> "float"]

\* ------------------------------------------------------- the upload loop

\* vectara.add_texts([text], doc_metadata=metadata): one record more
add_texts(cp, texts, doc_metadata) ==
    cp \o [i \in 1..Len(texts) |-> [text |-> texts[i], metadata |-> doc_metadata]]

\* for doc in docs: vectara.add_texts([doc.page_content], doc_metadata=doc.metadata)
UploadStep_first_metadata(cp, i) ==
    add_texts(cp, <<docs[i].page_content>>, docs[1].metadata)

UploadStep_first_text(cp, i) ==
    add_texts(cp, <<docs[1].page_content>>, docs[i].metadata)

UploadStep(cp, i) ==
    add_texts(cp, <<docs[i].page_content>>, docs[i].metadata)

Upload ==
    /\ uploaded < Len(docs)
    /\ corpus' = UploadStep(corpus, uploaded + 1)
    /\ uploaded' = uploaded + 1
    /\ UNCHANGED <<cell, retriever, last, hvars>>

\* ------------------------------------------------- the retriever's cells

\* SelfQueryRetriever.from_llm(llm, vectara, ..., verbose=True)
from_llm == [enable_limit |-> FALSE, verbose |-> TRUE]

\* SelfQueryRetriever.from_llm(llm, vectara, ..., enable_limit=True, verbose=True)
from_llm_limit_dropped == [enable_limit |-> FALSE, verbose |-> TRUE]

from_llm_enable_limit == [enable_limit |-> TRUE, verbose |-> TRUE]

BuildLimitRetriever ==
    /\ uploaded = Len(docs)
    /\ cell = "from_llm"
    /\ cell' = "from_llm_enable_limit"
    /\ retriever' = from_llm_enable_limit
    /\ UNCHANGED <<corpus, uploaded, last, hvars>>

\* ------------------------------------------------- the self-query steps

NoFilter == [type |-> "none"]

Comparison(comparator, attribute, value) ==
    [type |-> "comparison", comparator |-> comparator,
     attribute |-> attribute, value |-> value]

And(f, g) == [type |-> "and", left |-> f, right |-> g]

\* the queries of the notebook
QueryScientists == "What are movies about scientists"

QueryRated == "I want to watch a movie rated higher than 8.5"

QueryGerwig == "Has Greta Gerwig directed any movies about women"

QueryComposite == "What's a highly rated (above 8.5) science fiction film?"

QueryToys ==
    "What's a movie after 1990 but before 2005 that's all about toys, and preferably is animated"

QueryOne == "what is one movie with a rating above 8.5"

QueryTwo == "what are two movies with a rating above 8.5"

Queries ==
    {QueryScientists, QueryRated, QueryGerwig, QueryComposite, QueryToys,
     QueryOne, QueryTwo}

\* the number of results a query names (0: none)
NumberNamed(text) ==
    IF text = QueryOne THEN 1 ELSE IF text = QueryTwo THEN 2 ELSE 0

RatedAbove == Comparison("gt", "rating", Rating(8, 5))

\* The query-construction step is a language model: for each query, the
\* structured queries (search string, filter) it may answer with. For the
\* composite query the recorded result is that of the second outcome.
Constructed(text) ==
    CASE text = QueryScientists -> {[query |-> "scientists", filter |-> NoFilter]}
      [] text = QueryRated      -> {[query |-> " ", filter |-> RatedAbove]}
      [] text = QueryGerwig     ->
            {[query |-> "women",
              filter |-> Comparison("eq", "director", "Greta Gerwig")]}
      [] text = QueryComposite  ->
            {[query |-> " ",
              filter |-> And(RatedAbove,
                             Comparison("eq", "genre", "science fiction"))],
             [query |-> "science fiction", filter |-> RatedAbove]}
      [] text = QueryToys       ->
            {[query |-> "toys",
              filter |-> And(Comparison("gt", "year", 1990),
                             Comparison("lt", "year", 2005))]}
      [] text \in {QueryOne, QueryTwo} -> {[query |-> " ", filter |-> RatedAbove]}

\* the limit is taken from the query text only with enable_limit
StructuredQueries(r, text) ==
    {[query |-> sq.query, filter |-> sq.filter,
      limit |-> IF r.enable_limit THEN NumberNamed(text) ELSE 0] :
        sq \in Constructed(text)}

\* the filter expression as the vector store evaluates it on a record's
\* metadata; a comparison on an attribute the record lacks is false
RECURSIVE Matches(_, _)
Matches(f, md) ==
    CASE f.type = "none" -> TRUE
      [] f.type = "and"  -> Matches(f.left, md) /\ Matches(f.right, md)
      [] f.type = "comparison" ->
            /\ f.attribute \in DOMAIN md
            /\ CASE f.comparator = "eq" -> md[f.attribute] = f.value
                 [] f.comparator = "gt" -> md[f.attribute] > f.value
                 [] f.comparator = "lt" -> md[f.attribute] < f.value

\* what the search string is about, among the texts of the dataset
About(query) ==
    CASE query = "scientists" -> {docs[1].page_content}
      [] query = "women"      -> {docs[4].page_content}
      [] query = "toys"       -> {docs[5].page_content}
      [] OTHER                -> {}

Score(query, text) == IF text \in About(query) THEN 1 ELSE 0

\* the records in I by decreasing score; records of equal score in any order
RECURSIVE Orders(_)
Orders(I) ==
    IF I = {} THEN {<<>>}
    ELSE UNION {{<<x>> \o p : p \in Orders(I \ {x})} : x \in I}

Rankings(cp, I, query) ==
    {p \in Orders(I) :
        \A a, b \in 1..Len(p) :
            a < b => Score(query, cp[p[a]].text) >= Score(query, cp[p[b]].text)}

\* the number of results of a search that names none
DefaultK == 10

Min(a, b) == IF a < b THEN a ELSE b

\* a metadata value as the vector store returns it
ValueToString(attribute, v) ==
    CASE attribute = "year"   -> ToString(v)
      [] attribute = "rating" -> ToString(v \div 10) \o "." \o ToString(v % 10)
      [] OTHER                -> v

\* the Python type of a metadata value as uploaded, and as returned
UploadedType(attribute) ==
    CASE attribute = "year"   -> "int"
      [] attribute = "rating" -> "float"
      [] OTHER                -> "str"

ReturnedType(attribute) == "str"

\* the returned document of a record
ReturnedDocument(rec) ==
    [page_content |-> rec.text,
     metadata |->
        [a \in DOMAIN rec.metadata \cup {"lang", "offset", "len", "source"} |->
            CASE a = "lang"   -> "eng"
              [] a = "offset" -> "0"
              [] a = "len"    -> ToString(Len(rec.text))
              [] a = "source" -> "langchain"
              [] OTHER        -> ValueToString(a, rec.metadata[a])]]

\* vectorstore.search(query, filter=..., k=...): the possible result lists
Search(cp, sq) ==
    LET I == {i \in 1..Len(cp) : Matches(sq.filter, cp[i].metadata)}
        k == Min(IF sq.limit > 0 THEN sq.limit ELSE DefaultK, Cardinality(I))
    IN  {[n \in 1..k |-> ReturnedDocument(cp[p[n]])] : p \in Rankings(cp, I, sq.query)}

\* retriever.invoke(text)
Retrieve ==
    /\ uploaded = Len(docs)
    /\ \E text \in Queries :
         \E sq \in StructuredQueries(retriever, text) :
           \E result \in Search(corpus, sq) :
              last' = [by |-> cell, text |-> text, structured |-> sq,
                       result |-> result,
                       calls |-> <<[op |-> "query_constructor",
                                    input |-> text, output |-> sq],
                                   [op |-> "search",
                                    input |-> sq, output |-> result]>>,
                       error |-> NoError]
    /\ UNCHANGED <<corpus, uploaded, cell, retriever, hvars>>

\* ------------------------------------------------------ specifications

\* the history notebook after cell 3 (store = {}, get_session_history(session_id));
\* the retriever notebook before the upload loop
Init ==
    /\ store = <<>>
    /\ heap = <<>>
    /\ redis = <<>>
    /\ binding = "single"
    /\ epoch = 1
    /\ pc = "idle"
    /\ cur = NoCall
    /\ log = <<>>
    /\ corpus = <<>>
    /\ uploaded = 0
    /\ cell = "from_llm"
    /\ retriever = from_llm
    /\ last = [by |-> "", text |-> "",
               structured |-> [query |-> "", filter |-> NoFilter, limit |-> 0],
               result |-> <<>>, calls |-> <<>>, error |-> NoError]

HistoryNext ==
    \/ Invoke
    \/ Answer
    \/ ExitHistory
    \/ DefineUserConversation
    \/ DefineDictOutput
    \/ DefineRedis

RetrieverNext ==
    \/ Upload
    \/ BuildLimitRetriever
    \/ Retrieve

Next == HistoryNext

Spec == Init /\ [][Next]_vars

SpecRetriever == Init /\ [][RetrieverNext]_vars

\* either notebook, run in a kernel of its own from its first cell
RunHistory == uploaded = 0 /\ HistoryNext

RunRetriever == (log = <<>> /\ pc = "idle" /\ binding = "single") /\ RetrieverNext

NotebooksNext == RunHistory \/ RunRetriever

SpecNotebooks == Init /\ [][NotebooksNext]_vars

\* ------------------------------------------------- failing external calls
\* An external call may raise. The exception unwinds the wrapper (pc =
\* "raising") and reaches the cell that called invoke; the notebook has no
\* try statement, so the cell ends with it (pc = "raised") and the run of
\* the notebook stops there.

ModelError == "model error"

SessionStoreError == "session store error"

VectorStoreError == "vector store error"

\* the chat model raises inside with_message_history.invoke
ModelRaises ==
    /\ pc = "loaded"
    /\ cur' = [cur EXCEPT !.prompt = PromptOf(binding, cur.seen, cur.input),
                          !.calls = @ + 1,
                          !.error = ModelError]
    /\ pc' = "raising"
    /\ UNCHANGED <<store, heap, redis, binding, epoch, log, rvars>>

\* Redis raises when the messages of the history are read
SessionStoreReadRaises ==
    /\ pc = "idle"
    /\ binding = "redis"
    /\ Len(log) < MaxTurns
    /\ \E cfg \in Configs(binding), text \in Inputs :
          LET r == Factory(binding, store, heap, cfg)
          IN  /\ store' = r.store
              /\ heap' = r.heap
              /\ cur' = [NoCall EXCEPT !.cfg = cfg, !.hist = r.ret,
                                       !.text = text,
                                       !.input = InputOf(binding, text),
                                       !.error = SessionStoreError]
    /\ pc' = "raising"
    /\ UNCHANGED <<redis, binding, epoch, log, rvars>>

\* Redis raises when the two messages are added
SessionStoreWriteRaises ==
    /\ pc = "called"
    /\ binding = "redis"
    /\ cur' = [cur EXCEPT !.error = SessionStoreError]
    /\ pc' = "raising"
    /\ UNCHANGED <<store, heap, redis, binding, epoch, log, rvars>>

\* a cell that catches the exception and goes on with a default answer
CellRaises_caught ==
    /\ pc = "raising"
    /\ log' = Append(log, [binding |-> binding, epoch |-> epoch,
                           cfg |-> cur.cfg, hist |-> cur.hist,
                           text |-> cur.text, answer |-> "",
                           seen |-> cur.seen, prompt |-> cur.prompt,
                           result |-> ResultOf(binding, ""),
                           calls |-> cur.calls])
    /\ cur' = NoCall
    /\ pc' = "idle"
    /\ UNCHANGED <<store, heap, redis, binding, epoch, rvars>>

\* the cell with_message_history.invoke(...): no try statement around the
\* call, the exception ends the cell
CellRaises ==
    /\ pc = "raising"
    /\ pc' = "raised"
    /\ UNCHANGED <<store, heap, redis, binding, epoch, cur, log, rvars>>

\* retriever.invoke(text) when query construction (an LLM call) raises
ConstructRaises ==
    /\ uploaded = Len(docs)
    /\ \E text \in Queries :
          last' = [by |-> cell, text |-> text,
                   structured |-> [query |-> "", filter |-> NoFilter, limit |-> 0],
                   result |-> <<>>,
                   calls |-> <<[op |-> "query_constructor",
                                input |-> text, output |-> ModelError]>>,
                   error |-> ModelError]
    /\ UNCHANGED <<corpus, uploaded, cell, retriever, hvars>>

\* retriever.invoke(text) when the search of the vector store raises
SearchRaises ==
    /\ uploaded = Len(docs)
    /\ \E text \in Queries :
         \E sq \in StructuredQueries(retriever, text) :
            last' = [by |-> cell, text |-> text, structured |-> sq,
                     result |-> <<>>,
                     calls |-> <<[op |-> "query_constructor",
                                  input |-> text, output |-> sq],
                                 [op |-> "search",
                                  input |-> sq, output |-> VectorStoreError]>>,
                     error |-> VectorStoreError]
    /\ UNCHANGED <<corpus, uploaded, cell, retriever, hvars>>

ErrorsNext ==
    \/ RunHistory
    \/ RunRetriever
    \/ ModelRaises
    \/ SessionStoreReadRaises
    \/ SessionStoreWriteRaises
    \/ CellRaises
    \/ ConstructRaises
    \/ SearchRaises

SpecErrors == Init /\ [][ErrorsNext]_vars

\* ------------------------------------------------ the history claims
\* What the caller can say about the returned invocations, from the
\* identifiers and texts it passed and the answers it got.

\* invocations i and j addressed the same store: the same binding of the
\* global dict, or the Redis server
SameStore(i, j) ==
    IF log[i].binding = "redis" \/ log[j].binding = "redis"
    THEN log[i].binding = log[j].binding
    ELSE log[i].epoch = log[j].epoch

\* invocations i and j were configured with the same identifier
SameIdentifier(i, j) ==
    /\ (log[i].binding = "pair") = (log[j].binding = "pair")
    /\ log[i].cfg = log[j].cfg

\* the earlier invocations of j's conversation
Prior(j) == {i \in 1..(j - 1) : SameStore(i, j) /\ SameIdentifier(i, j)}

\* the input and the output of invocation i, as messages
Exchange(i) == <<HumanMessage(log[i].text), AIMessage(log[i].answer)>>

\* the exchanges of the invocations in I, in the order they were made
RECURSIVE ExchangesOf(_)
ExchangesOf(I) ==
    IF I = {} THEN <<>>
    ELSE LET m == CHOOSE x \in I : \A y \in I : y <= x
         IN  ExchangesOf(I \ {m}) \o Exchange(m)

SystemMessage == [type |-> "system", content |-> "math"]

\* C1: with the in-memory single-parameter wrapper, the second invocation of
\* a session_id gets, as the history injected into its prompt, exactly the
\* two messages of the first one: the first input, then the first output.
C1_SecondCallRemembers ==
    \A j \in 1..Len(log) :
        (log[j].binding = "single" /\ Cardinality(Prior(j)) = 1) =>
            LET i == CHOOSE x \in Prior(j) : TRUE
            IN  /\ log[j].seen = <<HumanMessage(log[i].text), AIMessage(log[i].answer)>>
                /\ log[j].prompt = <<SystemMessage>> \o log[j].seen
                                       \o <<HumanMessage(log[j].text)>>

C1_Witness ==
    \E j \in 1..Len(log) :
        /\ log[j].binding = "single"
        /\ Cardinality(Prior(j)) = 1
        /\ Len(log[j].seen) = 2
        /\ log[j].text = "What?"
        /\ log[j].cfg.session_id = "abc123"

\* C2: an invocation whose session_id was never used before sees an empty
\* history, whatever was invoked earlier under other session_ids.
UsedBefore(j) ==
    \E i \in 1..(j - 1) :
        /\ log[i].binding \in {"single", "dict"}
        /\ log[i].cfg.session_id = log[j].cfg.session_id

C2_NewSessionSeesNothing ==
    \A j \in 1..Len(log) :
        (log[j].binding \in {"single", "dict"} /\ ~UsedBefore(j)) =>
            /\ log[j].seen = <<>>
            /\ Len(log[j].prompt) = IF log[j].binding = "single" THEN 2 ELSE 1

C2_Witness ==
    \E j \in 2..Len(log) :
        /\ log[j].binding = "single"
        /\ log[j].cfg.session_id = "def234"
        /\ ~UsedBefore(j)
        /\ \A i \in 1..(j - 1) :
              log[i].binding = "single" /\ log[i].cfg.session_id = "abc123"
        /\ log[j].seen = <<>>

\* C3: get_session_history is get-or-create. Called with a session_id that is
\* no key of store it inserts a new empty ChatMessageHistory under the key; in
\* every case it returns the object stored under the key and leaves the other
\* entries alone; a second call returns the same object and changes nothing,
\* so two invocations of one session_id on one store get one object.
GetOrCreate(session_id) ==
    LET k  == StrKey(session_id)
        r  == get_session_history(store, heap, session_id)
        r2 == get_session_history(r.store, r.heap, session_id)
    IN  /\ DOMAIN r.store = DOMAIN store \cup {k}
        /\ r.ret = r.store[k]
        /\ \A x \in DOMAIN store : r.store[x] = store[x]
        /\ \A o \in 1..Len(heap) : r.heap[o] = heap[o]
        /\ k \notin DOMAIN store =>
              /\ r.ret = Len(heap) + 1
              /\ Len(r.heap) = Len(heap) + 1
              /\ r.heap[r.ret] = ChatMessageHistory
        /\ k \in DOMAIN store => r.heap = heap
        /\ r2.ret = r.ret
        /\ r2.store = r.store
        /\ r2.heap = r.heap

C3_GetOrCreate ==
    /\ \A s \in SessionIds : GetOrCreate(s)
    /\ \A i, j \in 1..Len(log) :
          (/\ log[i].binding = "single"
           /\ log[j].binding = "single"
           /\ log[i].cfg = log[j].cfg) => log[i].hist = log[j].hist

C3_Witness ==
    /\ binding = "single"
    /\ pc = "idle"
    /\ StrKey("abc123") \in DOMAIN store
    /\ StrKey("def234") \notin DOMAIN store
    /\ \E i, j \in 1..Len(log) :
          i < j /\ log[i].cfg = log[j].cfg /\ log[i].hist = log[j].hist

\* C4: with user_id and conversation_id configured, two invocations share a
\* history if and only if they agree on both; agreeing on one of the two
\* gives separate histories.
C4_KeyedByPair ==
    \A i, j \in 1..Len(log) :
        (log[i].binding = "pair" /\ log[j].binding = "pair") =>
            /\ (log[i].hist = log[j].hist) <=>
                  (/\ log[i].cfg.user_id = log[j].cfg.user_id
                   /\ log[i].cfg.conversation_id = log[j].cfg.conversation_id)
            /\ log[j].seen = ExchangesOf(Prior(j))

C4_Witness ==
    \E i, j, k \in 1..Len(log) :
        /\ i < j /\ j < k
        /\ log[i].binding = "pair" /\ log[k].binding = "pair"
        /\ log[j].binding = "pair"
        /\ log[i].cfg = [user_id |-> "123", conversation_id |-> "1"]
        /\ log[j].cfg = [user_id |-> "123", conversation_id |-> "2"]
        /\ log[k].cfg = [user_id |-> "123", conversation_id |-> "1"]
        /\ log[j].seen = <<>>
        /\ Len(log[k].seen) = 2

\* C5: get_message_history builds a new RedisChatMessageHistory on every
\* call, and the invocations of one session_id still share one history: each
\* sees the inputs and outputs of the earlier ones, which live in Redis under
\* the session_id.
C5_RedisSharesBySessionId ==
    \A j \in 1..Len(log) :
        log[j].binding = "redis" =>
            /\ \A i \in 1..(j - 1) : log[i].hist # log[j].hist
            /\ heap[log[j].hist].cls = "RedisChatMessageHistory"
            /\ heap[log[j].hist].messages = <<>>
            /\ log[j].seen = ExchangesOf(Prior(j))
            /\ RedisKey(log[j].cfg.session_id) \in DOMAIN redis

C5_Witness ==
    \E i, j \in 1..Len(log) :
        /\ i < j
        /\ log[i].binding = "redis" /\ log[j].binding = "redis"
        /\ log[i].cfg = log[j].cfg
        /\ log[i].hist # log[j].hist
        /\ log[j].seen = Exchange(i)

\* C6: an invocation looks the history up, then calls the model with that
\* history and the new input, then adds the input and the output to the
\* history: the model call happens after the lookup and before the append,
\* its prompt holds the history as stored before this turn's append, and
\* stored messages change only in the append.
StoredMessages == <<[o \in 1..Len(heap) |-> heap[o].messages], redis>>

StoredMessagesAfter == <<[o \in 1..Len(heap) |-> heap'[o].messages], redis'>>

C6_StepOrder ==
    /\ pc = "idle" => pc' \in {"idle", "loaded"}
    /\ pc = "loaded" => pc' \in {"loaded", "called"}
    /\ pc = "called" => pc' \in {"called", "idle"}
    /\ (pc = "idle" /\ pc' = "loaded") =>
          /\ cur'.seen = Messages(heap', redis', cur'.hist)
          /\ StoredMessagesAfter = StoredMessages
    /\ (pc = "loaded" /\ pc' = "called") =>
          /\ cur'.seen = cur.seen
          /\ cur'.prompt =
                IF binding = "dict"
                THEN cur.seen \o <<HumanMessage(cur.text)>>
                ELSE <<SystemMessage>> \o cur.seen \o <<HumanMessage(cur.text)>>
          /\ Messages(heap', redis', cur.hist) = cur.seen
          /\ StoredMessagesAfter = StoredMessages
    /\ (pc = "called" /\ pc' = "idle") =>
          Messages(heap', redis', cur.hist) =
              cur.seen \o <<HumanMessage(cur.text), AIMessage(cur.answer)>>
    /\ StoredMessagesAfter # StoredMessages => (pc = "called" /\ pc' = "idle")

C6_LookupCallAppend == [][C6_StepOrder]_vars

C6_Witness ==
    /\ pc = "called"
    /\ Len(cur.seen) = 2
    /\ Len(cur.prompt) = 4
    /\ Messages(heap, redis, cur.hist) = cur.seen

\* ---------------------------------------------- the retriever claims

\* the results recorded in the notebook
RecordedKon ==
    [page_content |-> docs[3].page_content,
     metadata |-> [lang |-> "eng", offset |-> "0", len |-> "116", year |-> "2006",
                   director |-> "Satoshi Kon", rating |-> "8.6",
                   source |-> "langchain"]]

RecordedTarkovsky ==
    [page_content |-> docs[6].page_content,
     metadata |-> [lang |-> "eng", offset |-> "0", len |-> "60", year |-> "1979",
                   rating |-> "9.9", director |-> "Andrei Tarkovsky",
                   genre |-> "science fiction", source |-> "langchain"]]

RecordedToys ==
    [page_content |-> docs[5].page_content,
     metadata |-> [lang |-> "eng", offset |-> "0", len |-> "41", year |-> "1995",
                   genre |-> "animated", source |-> "langchain"]]

RecordedScientists ==
    [page_content |-> docs[1].page_content,
     metadata |-> [lang |-> "eng", offset |-> "0", len |-> "66", year |-> "1993",
                   rating |-> "7.7", genre |-> "science fiction",
                   source |-> "langchain"]]

\* the element of docs with a page_content
DatasetDocument(text) == CHOOSE d \in {docs[i] : i \in 1..Len(docs)} : d.page_content = text

InDataset(text) == \E i \in 1..Len(docs) : docs[i].page_content = text

\* a returned rating or year, read back as a number (ratings in tenths)
RatingRead(str) == CHOOSE v \in 0..100 : ValueToString("rating", v) = str

YearRead(str) == CHOOSE v \in 1900..2100 : ValueToString("year", v) = str

ReturnedRatingAbove(doc, t) ==
    /\ "rating" \in DOMAIN doc.metadata
    /\ \E v \in 0..100 : ValueToString("rating", v) = doc.metadata.rating
    /\ RatingRead(doc.metadata.rating) > t

UploadedRatingAbove(text, t) ==
    /\ InDataset(text)
    /\ "rating" \in DOMAIN DatasetDocument(text).metadata
    /\ DatasetDocument(text).metadata.rating > t

Returned(text) == \E n \in 1..Len(last.result) : last.result[n].page_content = text

\* C7: for the filter-only query (rated higher than 8.5), every returned
\* document has a rating above 8.5, as returned and as uploaded, and every
\* element of docs with a rating above 8.5 is returned.
C7_FilterOnly ==
    last.text = QueryRated =>
        /\ \A n \in 1..Len(last.result) :
              /\ ReturnedRatingAbove(last.result[n], Rating(8, 5))
              /\ UploadedRatingAbove(last.result[n].page_content, Rating(8, 5))
        /\ \A i \in 1..Len(docs) :
              ("rating" \in DOMAIN docs[i].metadata
                  /\ docs[i].metadata.rating > Rating(8, 5))
                 => Returned(docs[i].page_content)

C7_Witness ==
    /\ last.text = QueryRated
    /\ last.result = <<RecordedKon, RecordedTarkovsky>>

\* C8: for the composite query (above 8.5, science fiction), every returned
\* document has a rating above 8.5 and the genre 'science fiction'; a
\* document with no genre attribute is not returned.
C8_CompositeFilter ==
    last.text = QueryComposite =>
        \A n \in 1..Len(last.result) :
            /\ ReturnedRatingAbove(last.result[n], Rating(8, 5))
            /\ "genre" \in DOMAIN last.result[n].metadata
            /\ last.result[n].metadata.genre = "science fiction"

\* C9: for the toys query, every returned document has a year after 1990 and
\* before 2005, as returned and as uploaded, and the documents are in order
\* of relevance to the search string, the toys document first.
C9_QueryAndRange ==
    last.text = QueryToys =>
        /\ \A n \in 1..Len(last.result) :
              /\ YearRead(last.result[n].metadata.year) > 1990
              /\ YearRead(last.result[n].metadata.year) < 2005
              /\ InDataset(last.result[n].page_content)
              /\ DatasetDocument(last.result[n].page_content).metadata.year > 1990
              /\ DatasetDocument(last.result[n].page_content).metadata.year < 2005
        /\ \A a, b \in 1..Len(last.result) :
              a < b => Score(last.structured.query, last.result[a].page_content)
                          >= Score(last.structured.query, last.result[b].page_content)
        /\ Len(last.result) >= 1
        /\ last.result[1].page_content = "Toys come alive and have a blast doing so"

C9_Witness ==
    /\ last.text = QueryToys
    /\ last.result = <<RecordedToys, RecordedScientists>>

C10_RecordedRun ==
    /\ last.by = "from_llm_enable_limit"
    /\ last.text = QueryTwo
    /\ last.result = <<RecordedKon, RecordedTarkovsky>>

\* the recorded run of the composite query
C8_RecordedRun ==
    /\ last.text = QueryComposite
    /\ last.result = <<RecordedKon, RecordedTarkovsky>>

\* the other results recorded in the notebook
RecordedGerwig ==
    [page_content |-> docs[4].page_content,
     metadata |-> [lang |-> "eng", offset |-> "0", len |-> "82", year |-> "2019",
                   director |-> "Greta Gerwig", rating |-> "8.3",
                   source |-> "langchain"]]

RecordedNolan ==
    [page_content |-> docs[2].page_content,
     metadata |-> [lang |-> "eng", offset |-> "0", len |-> "76", year |-> "2010",
                   director |-> "Christopher Nolan", rating |-> "8.2",
                   source |-> "langchain"]]

\* the attributes the vector store adds to every returned document
AddedAttributes == {"lang", "offset", "len", "source"}

\* a returned value equals an uploaded one, as Python compares them
SameValue(attribute, got, sent) ==
    /\ ReturnedType(attribute) = UploadedType(attribute)
    /\ got = sent

\* C11 as stated: every returned document carries, for each attribute
\* uploaded, the value that was uploaded, and no attribute that was not
\* uploaded.
C11_PassThrough ==
    \A n \in 1..Len(last.result) :
        LET doc == last.result[n]
            up  == DatasetDocument(doc.page_content).metadata
        IN  /\ InDataset(doc.page_content)
            /\ DOMAIN doc.metadata = DOMAIN up
            /\ \A a \in DOMAIN up : SameValue(a, doc.metadata[a], up[a])

\* C11 as amended: every returned document carries, for each attribute
\* uploaded, the uploaded value as a string (the year and the rating in
\* decimal notation, a string as it is), and besides the uploaded attributes
\* exactly lang, offset, len and source.
C11_PassThroughAsStrings ==
    \A n \in 1..Len(last.result) :
        LET doc == last.result[n]
            up  == DatasetDocument(doc.page_content).metadata
        IN  /\ InDataset(doc.page_content)
            /\ DOMAIN doc.metadata = DOMAIN up \cup AddedAttributes
            /\ \A a \in DOMAIN up :
                  /\ ReturnedType(a) = "str"
                  /\ CASE a = "year"   -> YearRead(doc.metadata[a]) = up[a]
                       [] a = "rating" -> RatingRead(doc.metadata[a]) = up[a]
                       [] OTHER        -> doc.metadata[a] = up[a]
            /\ doc.metadata.lang = "eng"
            /\ doc.metadata.source = "langchain"

C11_Witness ==
    /\ last.text = QueryGerwig
    /\ last.result = <<RecordedGerwig>>
    /\ docs[4].metadata.year = 2019
    /\ docs[4].metadata.rating = Rating(8, 3)

\* C13: for the query with a search string and no filter, the result holds
\* every one of the six elements of docs, once each, in order of relevance,
\* the scientists document first.
C13_SearchOnly ==
    last.text = QueryScientists =>
        /\ last.structured.filter = NoFilter
        /\ Len(last.result) = Len(docs)
        /\ \A i \in 1..Len(docs) : Returned(docs[i].page_content)
        /\ \A a, b \in 1..Len(last.result) :
              a < b => Score(last.structured.query, last.result[a].page_content)
                          >= Score(last.structured.query, last.result[b].page_content)
        /\ last.result[1].page_content =
              "A bunch of scientists bring back dinosaurs and mayhem breaks loose"

C13_Witness ==
    /\ last.text = QueryScientists
    /\ last.result = <<RecordedScientists, RecordedKon, RecordedToys,
                       RecordedTarkovsky, RecordedGerwig, RecordedNolan>>

\* C14: the upload loop has called add_texts once per element of docs passed,
\* in list order, with that element's text and metadata: the corpus holds
\* one record per element passed, the i-th record being the i-th element,
\* and no record pairs one element's text with another's metadata.
C14_UploadLoop ==
    /\ uploaded <= Len(docs)
    /\ Len(corpus) = uploaded
    /\ \A i \in 1..Len(corpus) :
          /\ corpus[i].text = docs[i].page_content
          /\ corpus[i].metadata = docs[i].metadata
          /\ \A j \in 1..Len(docs) :
                corpus[i].text = docs[j].page_content
                    => corpus[i].metadata = docs[j].metadata
    /\ last.text # "" => uploaded = Len(docs)

C14_Witness ==
    /\ uploaded = Len(docs)
    /\ Len(corpus) = 6
    /\ corpus[5] = [text |-> "Toys come alive and have a blast doing so",
                    metadata |-> [year |-> 1995, genre |-> "animated"]]
    /\ last.text # ""

\* ------------------------------------------- more of the history claims

\* the dict key a configuration stands for
KeyOf(b, cfg) ==
    CASE b = "pair"  -> TupleKey(cfg.user_id, cfg.conversation_id)
      [] b = "redis" -> RedisKey(cfg.session_id)
      [] OTHER       -> StrKey(cfg.session_id)

\* invocation j is the latest of its conversation
Latest(j) == \A k \in (j + 1)..Len(log) : ~(SameStore(j, k) /\ SameIdentifier(j, k))

\* C15: with output_messages_key='output_message' the message added to the
\* history after an invocation is the value under that key of the returned
\* dict, after the human message of the input; the second invocation of a
\* session sees the first human message followed by the first AI message.
C15_OutputMessagesKey ==
    \A j \in 1..Len(log) :
        log[j].binding = "dict" =>
            LET n == Cardinality(Prior(j))
                m == Messages(heap, redis, log[j].hist)
            IN  /\ DOMAIN log[j].result = {"output_message"}
                /\ Len(m) >= 2 * n + 2
                /\ m[2 * n + 1] = HumanMessage(log[j].text)
                /\ m[2 * n + 2] = log[j].result.output_message
                /\ n = 1 =>
                      LET i == CHOOSE x \in Prior(j) : TRUE
                      IN  /\ log[j].seen = <<HumanMessage(log[i].text),
                                             log[i].result.output_message>>
                          /\ log[j].seen[2] = AIMessage(log[i].answer)

C15_Witness ==
    \E i, j \in 1..Len(log) :
        /\ i < j
        /\ log[i].binding = "dict" /\ log[j].binding = "dict"
        /\ log[i].cfg = log[j].cfg
        /\ Len(log[j].seen) = 2
        /\ log[j].seen[2] = log[i].result.output_message

\* C16: after n invocations of a conversation, whatever was invoked on
\* others, its history holds exactly 2n messages: the input and the output
\* of each invocation, human message then AI message, in the order the
\* invocations were made.
C16_HistoryIsTheExchanges ==
    \A j \in 1..Len(log) :
        Latest(j) =>
            LET I == Prior(j) \cup {j}
                m == Messages(heap, redis, log[j].hist)
            IN  /\ Len(m) = 2 * Cardinality(I)
                /\ m = ExchangesOf(I)
                /\ \A p \in 1..Len(m) :
                      m[p].type = IF p % 2 = 1 THEN "human" ELSE "ai"

C16_Witness ==
    \E i, k, j \in 1..Len(log) :
        /\ i < k /\ k < j
        /\ log[i].binding = "single" /\ log[k].binding = "single"
        /\ log[j].binding = "single"
        /\ log[i].cfg = log[j].cfg
        /\ log[k].cfg # log[j].cfg
        /\ log[i].text # log[j].text
        /\ Len(Messages(heap, redis, log[j].hist)) = 4
        /\ Len(Messages(heap, redis, log[k].hist)) = 2

\* the messages the bound factory gives for a configuration
MessagesFor(b, st, hp, rd, cfg) ==
    LET r == Factory(b, st, hp, cfg) IN Messages(r.heap, rd, r.ret)

\* C17: a step of an invocation on one identifier leaves the history of
\* every other identifier as it was: the object stored under another key,
\* its messages, and what the factory gives for another identifier.
C17_Frame ==
    pc' # pc =>
        LET a == IF pc = "idle" THEN cur'.cfg ELSE cur.cfg
        IN  /\ \A cfg \in Configs(binding) \ {a} :
                  MessagesFor(binding, store', heap', redis', cfg)
                      = MessagesFor(binding, store, heap, redis, cfg)
            /\ \A k \in DOMAIN store \ {KeyOf(binding, a)} :
                  /\ k \in DOMAIN store'
                  /\ store'[k] = store[k]
                  /\ heap'[store'[k]] = heap[store[k]]
            /\ \A k \in DOMAIN redis \ {KeyOf(binding, a)} :
                  /\ k \in DOMAIN redis'
                  /\ redis'[k] = redis[k]

C17_OtherSessionsUnchanged == [][C17_Frame]_vars

C17_Witness ==
    /\ pc = "idle"
    /\ \E i, j \in 1..Len(log) :
          /\ i < j
          /\ Latest(i)
          /\ log[i].binding = "single" /\ log[j].binding = "single"
          /\ log[i].cfg.session_id = "abc123"
          /\ log[j].cfg.session_id = "def234"
          /\ Messages(heap, redis, log[i].hist) = Exchange(i)
          /\ Messages(heap, redis, log[j].hist) = Exchange(j)

\* the keys requested of the current dict so far
Requested(lg, ep, b, p, cu) ==
    {KeyOf(lg[i].binding, lg[i].cfg) :
        i \in {x \in 1..Len(lg) : lg[x].epoch = ep /\ lg[x].binding # "redis"}}
    \cup (IF p # "idle" /\ b # "redis" THEN {KeyOf(b, cu.cfg)} ELSE {})

\* C18: while store is not rebound, no entry is removed or replaced, a call
\* of the factory adds one entry when the key is missing and none when it is
\* present, and the dict has as many entries as distinct identifiers
\* were requested of it.
C18_Step ==
    /\ epoch' = epoch =>
          /\ \A k \in DOMAIN store : k \in DOMAIN store' /\ store'[k] = store[k]
          /\ Cardinality(DOMAIN store') <= Cardinality(DOMAIN store) + 1
          /\ (pc = "idle" /\ pc' = "loaded" /\ binding # "redis") =>
                /\ DOMAIN store' = DOMAIN store \cup {KeyOf(binding, cur'.cfg)}
                /\ KeyOf(binding, cur'.cfg) \in DOMAIN store => store' = store
          /\ ~(pc = "idle" /\ pc' = "loaded") => store' = store
    /\ DOMAIN store' = Requested(log', epoch', binding', pc', cur')
    /\ Cardinality(DOMAIN store) = Cardinality(Requested(log, epoch, binding, pc, cur))

C18_StoreOnlyGrows == [][C18_Step]_vars

C18_Witness ==
    /\ Cardinality(DOMAIN store) = 2
    /\ Cardinality({i \in 1..Len(log) :
                       log[i].epoch = epoch /\ log[i].binding # "redis"}) = 3
    /\ pc = "idle"

\* C19: after store is bound to a new empty dict, nothing of the histories
\* made before is seen: an invocation with an identifier used before the
\* rebinding sees only the exchanges made with it since.
C19_RebindingDiscards ==
    /\ \A j \in 1..Len(log) :
          (log[j].epoch > 1 /\ log[j].binding # "redis") =>
              /\ log[j].seen = ExchangesOf(Prior(j))
              /\ \A i \in 1..(j - 1) : log[i].epoch < log[j].epoch
                                          => log[i].hist # log[j].hist
    /\ \A k \in DOMAIN store :
          \A i \in 1..Len(log) : log[i].epoch < epoch => log[i].hist # store[k]

C19_Witness ==
    \E i, j \in 1..Len(log) :
        /\ i < j
        /\ log[i].binding = "single" /\ log[i].cfg.session_id = "abc123"
        /\ log[j].binding = "dict" /\ log[j].cfg.session_id = "abc123"
        /\ log[j].epoch = log[i].epoch + 1
        /\ Prior(j) = {}
        /\ log[j].seen = <<>>

\* C20: the single-parameter factory redefined on the dict that holds tuple
\* keys never meets them: called with any session_id it neither returns nor
\* changes an object stored under a tuple key, and the two-parameter factory
\* neither returns nor changes one stored under a string key; the
\* invocations of the two kinds share no history object.
IsTupleKey(k) == k[1] = "tuple"

LeavesAlone(r, keys) ==
    \A k \in keys :
        /\ k \in DOMAIN r.store
        /\ r.store[k] = store[k]
        /\ r.heap[store[k]] = heap[store[k]]
        /\ r.ret # store[k]

C20_StringAndTupleKeys ==
    /\ \A s \in SessionIds :
          LeavesAlone(get_session_history_redefined(store, heap, s),
                      {k \in DOMAIN store : IsTupleKey(k)})
    /\ \A u \in UserIds, c \in ConversationIds :
          LeavesAlone(get_session_history_user_conversation(store, heap, u, c),
                      {k \in DOMAIN store : ~IsTupleKey(k)})
    /\ \A i, j \in 1..Len(log) :
          (log[i].binding = "pair" /\ log[j].binding = "dict") =>
              /\ log[i].hist # log[j].hist
              /\ log[j].seen = ExchangesOf(Prior(j))
              /\ Latest(i) => Messages(heap, redis, log[i].hist)
                                  = ExchangesOf(Prior(i) \cup {i})

C20_Witness ==
    /\ binding = "dict"
    /\ pc = "idle"
    /\ TupleKey("abc123", "1") \in DOMAIN store
    /\ StrKey("abc123") \in DOMAIN store
    /\ Len(heap[store[TupleKey("abc123", "1")]].messages) = 2
    /\ Len(heap[store[StrKey("abc123")]].messages) = 2

\* --------------------------------------------------- calls per invocation

\* C12: every retriever.invoke makes one query-construction call and then
\* one search on what it returned; every with_message_history.invoke makes
\* one chat-completion call; calls are made one after the other, an invocation
\* is entered only when none is in flight.
C12_OneCallAtATime ==
    /\ last.text # "" =>
          /\ Len(last.calls) = 2
          /\ last.calls[1].op = "query_constructor"
          /\ last.calls[1].input = last.text
          /\ last.calls[2].op = "search"
          /\ last.calls[2].input = last.calls[1].output
          /\ last.calls[2].output = last.result
    /\ \A j \in 1..Len(log) : log[j].calls = 1
    /\ pc = "idle" <=> cur = NoCall
    /\ pc = "loaded" => cur.calls = 0
    /\ pc = "called" => cur.calls = 1
    /\ last.text # "" => (log = <<>> /\ pc = "idle")

C12_Witness ==
    /\ Len(log) = 2
    /\ pc = "called"
    /\ cur.calls = 1
    /\ log[1].calls = 1

\* ------------------------------------------------------- error handling

\* identifier values the factories are tried with, the empty string included
Identifiers == SessionIds \cup UserIds \cup {""}

\* a factory result that is a history object, and no error
ReturnsHistory(r, cls) ==
    /\ DOMAIN r = {"store", "heap", "ret"}
    /\ r.ret \in 1..Len(r.heap)
    /\ r.heap[r.ret].cls = cls

\* the factory bound in the current cell, and get_message_history, tried
\* where a factory is called: at the start of an invocation
FactoriesTotal ==
    \A s \in Identifiers :
        /\ binding = "single" =>
              LET r == get_session_history(store, heap, s)
              IN  /\ ReturnsHistory(r, "ChatMessageHistory")
                  /\ r.store[StrKey(s)] = r.ret
        /\ binding \in {"dict", "redis"} =>
              ReturnsHistory(get_session_history_redefined(store, heap, s),
                             "ChatMessageHistory")
        /\ binding = "pair" =>
              \A c \in ConversationIds :
                  ReturnsHistory(
                      get_session_history_user_conversation(store, heap, s, c),
                      "ChatMessageHistory")
        /\ LET r == get_message_history(store, heap, s)
           IN  /\ ReturnsHistory(r, "RedisChatMessageHistory")
               /\ r.heap[r.ret].key = RedisKey(s)

\* C21: no error is handled locally. The factories return a history object
\* for every identifier and have no error outcome. An exception raised by the
\* model, the session store or the vector store reaches the caller of invoke
\* as it was raised: the invocation is not retried, nothing is recorded for
\* it, no result takes its place, and no error is delivered any other way.
C21_Step ==
    /\ pc = "idle" => FactoriesTotal
    /\ pc = "raising" =>
          /\ pc' = "raised"
          /\ cur' = cur
          /\ log' = log
          /\ store' = store /\ heap' = heap /\ redis' = redis
    /\ pc = "raised" => pc' = "raised"
    /\ (pc # "raising" /\ pc' = "raising") =>
          /\ cur'.error \in {ModelError, SessionStoreError}
          /\ cur'.calls <= 1
          /\ log' = log
          /\ redis' = redis
          /\ \A ref \in 1..Len(heap) : heap'[ref] = heap[ref]
    /\ (pc' \in {"raising", "raised"}) <=> (cur'.error # NoError)
    /\ log' # log =>
          /\ log'[Len(log')].answer \in Outputs
          /\ log'[Len(log')].calls = 1
    /\ last'.error # NoError =>
          /\ last'.result = <<>>
          /\ Len(last'.calls) \in 1..2
          /\ last'.calls[1].op = "query_constructor"
          /\ Len(last'.calls) = 2 => last'.calls[2].op = "search"
          /\ last'.calls[Len(last'.calls)].output = last'.error
          /\ corpus' = corpus
    /\ (last'.error = NoError /\ last'.text # "") =>
          /\ Len(last'.calls) = 2
          /\ last'.calls[2].output = last'.result

====
